---- MODULE Spec2Model ----
(***************************************************************************)
(* Pointing/slew state machine of TelescopeController (js/telescope.js),    *)
(* the timed integration and the measurement of PhotometerController       *)
(* (js/photometer.js), the spatial queries of Catalog (js/catalog.js) and  *)
(* the integration of SpectrometerController (js/spectrometer.js).         *)
(*                                                                         *)
(* Units.  Declination is counted in units of 0.0005 degree (the smallest  *)
(* entry of CONSTANTS.SLEW_SPEEDS), right ascension in units of 0.0005/15  *)
(* hour, so that every step of the speed table is a whole number in both   *)
(* coordinates.  Timer intervals are counted in units of 0.5 ms.           *)
(* Arithmetic is exact; the rounding of IEEE doubles is not modelled.      *)
(* Angles on the sky are measured in tenths of a Dec unit (0.00005 degree) *)
(* and cosines in thousandths.                                             *)
(*                                                                         *)
(* Timers.  setInterval creates a ticker that stays live until it is       *)
(* passed to clearInterval; a live ticker may fire at any time.  A ticker  *)
(* keeps the interval it was created with.                                 *)
(***************************************************************************)
EXTENDS Integers, Sequences, FiniteSets, TLC

VARIABLES
    \* TelescopeController
    centerRA,        \* this.centerRA, RA units
    centerDec,       \* this.centerDec, Dec units
    slewSpeedIndex,  \* this.slewSpeedIndex, 0-based index into SLEW_SPEEDS
    slewActive,      \* this.slewActive
    slewDirection,   \* this.slewDirection, [dx, dy]
    slewTimer,       \* this.slewTimer: a ticker id, or NULL
    autoSlewTarget,  \* this.autoSlewTarget: a catalog object, or NoTarget
    autoSlewActive,  \* this.autoSlewActive
    slewTickers,     \* live setInterval tickers of the slew: id -> interval
    tickersCreated,  \* number of setInterval calls made so far (ids are 1..)
    ticks,           \* number of slew ticks fired so far
    \* PhotometerController
    currentFilter,       \* this.currentFilter
    apertureIndex,       \* this.apertureIndex
    integrationIndex,    \* this.integrationIndex
    atmosphereEnabled,   \* this.atmosphereEnabled
    integrating,         \* this.integrating
    integrationTimer,    \* this.integrationTimer: a ticker id, or NULL
    integrationProgress, \* this.integrationProgress, percent
    observationCount,    \* this.observationCount
    integTickers,        \* live integration tickers: id -> closure state
    integrationsStarted, \* number of integration tickers created so far
    controlsDisabled,    \* the disabled property of the photometer controls
    results,             \* the object returned by the last simulatePhotometry
    resultAirmass,       \* the airmass handed to the last displayResults
    outputLines,         \* number of lines appended to #photometry-output
    \* TelescopeController: site, field and catalog
    currentTelescope,    \* this.currentTelescope: index into TELESCOPES, or NULL
    currentField,        \* this.currentField: index into FIELDS, or NULL
    objects,             \* this.catalog.objects
    altitude,            \* getCurrentPointing().altaz.altitude, degrees
    backgroundStars,     \* this.catalog.backgroundStars
    loads,               \* the loadFromFile calls made so far, in call order
    \* SpectrometerController
    currentObject,       \* this.currentObject: a catalog object, or NoObject
    specIntegrating,     \* this.integrating
    specTimer,           \* this.integrationTimer: a ticker id, or NULL
    elapsed,             \* this.elapsed
    counts,              \* this.counts
    rates,               \* this.rates
    plotMode,            \* this.plotMode
    spectralLibrary,     \* Utils.spectralLibrary is loaded
    pendingSpectra,      \* generateSpectrum calls suspended at their await
    specTickers,         \* live spectrometer tickers
    specStarted,         \* number of spectrometer tickers created so far
    specTicks,           \* number of spectrometer ticks fired so far
    integrationObject,   \* the object the running integration was started for
    tickRates,           \* the rate array read by the last updateIntegration
    spectralLibraryLoaded, \* this.spectralLibraryLoaded
    specInit,            \* position of init(): "loading" or "done"
    alerted,             \* the last operation showed an alert
    \* Catalog query
    slitQuery,           \* the last findObjectsInSlit call: arguments and result
    \* Utils
    utilCall,            \* the last call of a function of Utils: arguments and result
    \* observation
    lastOp               \* the operation that ran last

telVars == <<centerRA, centerDec, slewSpeedIndex, slewActive, slewDirection,
             slewTimer, autoSlewTarget, autoSlewActive, slewTickers,
             tickersCreated, ticks>>

photVars == <<currentFilter, apertureIndex, integrationIndex,
              atmosphereEnabled, integrating, integrationTimer,
              integrationProgress, observationCount, integTickers,
              integrationsStarted, controlsDisabled>>

measVars == <<results, resultAirmass, outputLines>>

siteVars == <<currentTelescope, currentField, objects, altitude,
              backgroundStars, loads>>

specVars == <<currentObject, specIntegrating, specTimer, elapsed, counts,
              rates, plotMode, spectralLibrary, pendingSpectra, specTickers,
              specStarted, specTicks, integrationObject, tickRates,
              spectralLibraryLoaded, specInit>>

\* what the telescope's slew operations leave alone
notSlewVars == <<photVars, measVars, siteVars, specVars, alerted, slitQuery,
                 utilCall>>

\* what the photometer's settings and integration leave alone
notPhotVars == <<telVars, siteVars, specVars, alerted, slitQuery, utilCall>>

\* what the spectrometer leaves alone
notSpecVars == <<telVars, photVars, measVars, siteVars, slitQuery,
                 utilCall>>

vars == <<telVars, photVars, lastOp, measVars, siteVars, specVars, alerted,
          slitQuery, utilCall>>

----------------------------------------------------------------------------
(* Bounds of the model *)

MaxSlewEvents == 4     \* slew tickers created plus slew ticks fired per behaviour
MaxIntegrations == 2   \* photometer integrations started per behaviour
Far == 1000            \* largest coordinate offset measured exactly, sub-units
MaxSpecStarts == 2     \* spectrometer integrations started per behaviour
MaxSpecTicks == 3      \* spectrometer ticks fired per behaviour
NumBins == 2           \* wavelength bins of the spectrum
MaxDraw == 1           \* largest Poisson draw of one bin in one tick
MaxSelections == 3     \* fields selected per behaviour
MaxGrid == 3           \* points of the source grid of an interpolation
MaxTargets == 2        \* target wavelengths of an interpolation
MaxLibrary == 3        \* entries of the spectral library

----------------------------------------------------------------------------
(* Units and constants *)

NULL == 0

DecUnitsPerDeg == 2000
RAUnitsPerHour == 30000

H24 == 24 * RAUnitsPerHour
H12 == 12 * RAUnitsPerHour
Dec90 == 90 * DecUnitsPerDeg

\* CONSTANTS.SLEW_SPEEDS: step in Dec units, interval in units of 0.5 ms
SLEW_SPEEDS ==
    [i \in 0..4 |->
        CASE i = 0 -> [step |-> 1,  interval |-> 100]
          [] i = 1 -> [step |-> 2,  interval |-> 50]
          [] i = 2 -> [step |-> 2,  interval |-> 25]
          [] i = 3 -> [step |-> 4,  interval |-> 25]
          [] i = 4 -> [step |-> 80, interval |-> 25]]

NumSpeeds == 5

Abs(x) == IF x < 0 THEN -x ELSE x
Sign(x) == IF x > 0 THEN 1 ELSE IF x < 0 THEN -1 ELSE 0
Max(a, b) == IF a >= b THEN a ELSE b
Min(a, b) == IF a <= b THEN a ELSE b

\* Utils.normalizeHours: while (hours < 0) hours += 24; while (hours >= 24) hours -= 24
RECURSIVE AddWhileNegative(_)
AddWhileNegative(h) == IF h < 0 THEN AddWhileNegative(h + H24) ELSE h

RECURSIVE SubtractWhileOver(_)
SubtractWhileOver(h) == IF h >= H24 THEN SubtractWhileOver(h - H24) ELSE h

normalizeHoursIdentity(hours) == hours

normalizeHours(hours) == SubtractWhileOver(AddWhileNegative(hours))

clampDecIdentity(dec) == dec

\* Math.max(-90, Math.min(90, dec))
clampDec(dec) == Max(-Dec90, Min(Dec90, dec))

\* stepRA = stepDeg / 15.0, hours, expressed in RA units
stepRAOf(stepDeg) == (stepDeg * RAUnitsPerHour) \div (15 * DecUnitsPerDeg)

----------------------------------------------------------------------------
(* Inputs *)

\* In-range pointings the telescope is at when slewing begins: the
\* constructor's (0, 0) and pointings adopted from a selected field.
StartPointings ==
    { [ra |-> 0, dec |-> 0],
      [ra |-> H24 - 1, dec |-> Dec90 - 3],
      [ra |-> H12 + 5, dec |-> 1 - Dec90] }

\* In-range catalog objects (AstroObject.ra in hours, .dec in degrees)
SlewTargets ==
    { [name |-> "far",  ra |-> 23 * RAUnitsPerHour, dec |-> 0],
      [name |-> "near", ra |-> 5, dec |-> 3] }

NoTarget == [name |-> "null", ra |-> 0, dec |-> 0]

\* directionMap of startSlewing
Directions == {"north", "south", "east", "west"}

directionMap(direction) ==
    CASE direction = "north" -> [dx |-> 0, dy |-> 1]
      [] direction = "south" -> [dx |-> 0, dy |-> -1]
      [] direction = "east"  -> [dx |-> 1, dy |-> 0]
      [] direction = "west"  -> [dx |-> -1, dy |-> 0]

----------------------------------------------------------------------------
(* Tickers *)

\* setInterval(callback, interval): a new live ticker with a fresh id
SetInterval(tickers, id, closure) ==
    [t \in DOMAIN tickers \cup {id} |->
        IF t = id THEN closure ELSE tickers[t]]

ClearIntervalLeaks(tickers, id) == tickers

\* clearInterval(id): the ticker is no longer live
ClearInterval(tickers, id) ==
    [t \in DOMAIN tickers \ {id} |-> tickers[t]]

NoTickers == [t \in {} |-> 0]

----------------------------------------------------------------------------
(* TelescopeController *)

InitTelescope(p) ==
    /\ centerRA = p.ra
    /\ centerDec = p.dec
    /\ slewSpeedIndex = 2
    /\ slewActive = FALSE
    /\ slewDirection = [dx |-> 0, dy |-> 0]
    /\ slewTimer = NULL
    /\ autoSlewTarget = NoTarget
    /\ autoSlewActive = FALSE
    /\ slewTickers = NoTickers
    /\ tickersCreated = 0
    /\ ticks = 0

\* cycleSpeed
CycleSpeed ==
    /\ slewSpeedIndex' = (slewSpeedIndex + 1) % NumSpeeds
    /\ lastOp' = "cycleSpeed"
    /\ UNCHANGED <<centerRA, centerDec, slewActive, slewDirection, slewTimer,
                   autoSlewTarget, autoSlewActive, slewTickers,
                   tickersCreated, ticks>>
    /\ UNCHANGED notSlewVars

startSlewingIgnoresActive == FALSE

\* if (this.slewActive) return;
startSlewingReturnsEarly == slewActive

\* startSlewing(direction)
StartSlewing(direction) ==
    /\ lastOp' = "startSlewing"
    /\ IF startSlewingReturnsEarly
       THEN UNCHANGED telVars
       ELSE /\ tickersCreated + ticks < MaxSlewEvents
            /\ slewActive' = TRUE
            /\ autoSlewActive' = FALSE
            /\ slewDirection' = directionMap(direction)
            /\ tickersCreated' = tickersCreated + 1
            /\ slewTimer' = tickersCreated + 1
            /\ slewTickers' = SetInterval(slewTickers, tickersCreated + 1,
                                  SLEW_SPEEDS[slewSpeedIndex].interval)
            /\ UNCHANGED <<centerRA, centerDec, slewSpeedIndex,
                           autoSlewTarget, ticks>>
    /\ UNCHANGED notSlewVars

\* The ticker set left by stopSlewing
TickersAfterStop ==
    IF slewTimer # NULL THEN ClearInterval(slewTickers, slewTimer)
                        ELSE slewTickers

\* stopSlewing
StopSlewing ==
    /\ lastOp' = "stopSlewing"
    /\ slewActive' = FALSE
    /\ slewTickers' = TickersAfterStop
    /\ slewTimer' = NULL
    /\ UNCHANGED <<centerRA, centerDec, slewSpeedIndex, slewDirection,
                   autoSlewTarget, autoSlewActive, tickersCreated, ticks>>
    /\ UNCHANGED notSlewVars

\* abortSlewing
AbortSlewing ==
    /\ lastOp' = "abortSlewing"
    /\ slewActive' = FALSE
    /\ slewTickers' = TickersAfterStop
    /\ slewTimer' = NULL
    /\ autoSlewActive' = FALSE
    /\ autoSlewTarget' = NoTarget
    /\ UNCHANGED <<centerRA, centerDec, slewSpeedIndex, slewDirection,
                   tickersCreated, ticks>>
    /\ UNCHANGED notSlewVars

\* slewToObject(obj)
SlewToObject(obj) ==
    /\ tickersCreated + ticks < MaxSlewEvents
    /\ lastOp' = "slewToObject"
    /\ autoSlewTarget' = obj
    /\ autoSlewActive' = TRUE
    /\ slewActive' = TRUE
    /\ tickersCreated' = tickersCreated + 1
    /\ slewTimer' = tickersCreated + 1
    /\ slewTickers' = SetInterval(slewTickers, tickersCreated + 1,
                          SLEW_SPEEDS[slewSpeedIndex].interval)
    /\ UNCHANGED <<centerRA, centerDec, slewSpeedIndex, slewDirection, ticks>>
    /\ UNCHANGED notSlewVars

WrappedDRAUnwrapped(dRA) == dRA

\* let wrappedDRA = dRA; if (wrappedDRA > 12) wrappedDRA -= 24;
\* if (wrappedDRA < -12) wrappedDRA += 24;
WrappedDRA(dRA) ==
    LET a == IF dRA > H12 THEN dRA - H24 ELSE dRA
    IN  IF a < -H12 THEN a + H24 ELSE a

StepTowardOvershoots(current, delta, step, target) ==
    current + Sign(delta) * step

\* if (Math.abs(delta) > step) current += Math.sign(delta) * step;
\* else current = target;
StepToward(current, delta, step, target) ==
    IF Abs(delta) > step THEN current + Sign(delta) * step ELSE target

\* if (Math.abs(wrappedDRA) <= stepRA && Math.abs(dDec) <= stepDeg)
Arrived(wrappedDRA, dDec, stepRA, stepDeg) ==
    Abs(wrappedDRA) <= stepRA /\ Abs(dDec) <= stepDeg

\* the branch condition of performSlewStep
AutoBranch == autoSlewActive /\ autoSlewTarget # NoTarget

\* performSlewStep, the callback of every slew ticker
PerformSlewStep ==
    LET speed == SLEW_SPEEDS[slewSpeedIndex]
        stepDeg == speed.step
        stepRA == stepRAOf(stepDeg)
        dRA == autoSlewTarget.ra - centerRA
        dDec == autoSlewTarget.dec - centerDec
        wrappedDRA == WrappedDRA(dRA)
        arrived == Arrived(wrappedDRA, dDec, stepRA, stepDeg)
    IN
    /\ lastOp' = "performSlewStep"
    /\ IF AutoBranch
       THEN /\ centerRA' = normalizeHours(
                  StepToward(centerRA, wrappedDRA, stepRA, autoSlewTarget.ra))
            /\ centerDec' = clampDec(
                  StepToward(centerDec, dDec, stepDeg, autoSlewTarget.dec))
            /\ IF arrived
               THEN \* this.abortSlewing()
                    /\ slewActive' = FALSE
                    /\ slewTickers' = TickersAfterStop
                    /\ slewTimer' = NULL
                    /\ autoSlewActive' = FALSE
                    /\ autoSlewTarget' = NoTarget
               ELSE UNCHANGED <<slewActive, slewTickers, slewTimer,
                                autoSlewActive, autoSlewTarget>>
       ELSE /\ centerRA' = normalizeHours(centerRA + slewDirection.dx * stepRA)
            /\ centerDec' = clampDec(centerDec + slewDirection.dy * stepDeg)
            /\ UNCHANGED <<slewActive, slewTickers, slewTimer,
                           autoSlewActive, autoSlewTarget>>
    /\ UNCHANGED <<slewSpeedIndex, slewDirection, tickersCreated>>
    /\ UNCHANGED notSlewVars

\* A live slew ticker fires
SlewTick(t) ==
    /\ t \in DOMAIN slewTickers
    /\ tickersCreated + ticks < MaxSlewEvents
    /\ ticks' = ticks + 1
    /\ PerformSlewStep

----------------------------------------------------------------------------
(* Coordinate math and Catalog *)

\* Math.cos(Utils.degreesToRadians(dec)) in thousandths, dec in Dec units:
\* the rational approximation (180^2 - 4 d^2) / (180^2 + d^2) of the cosine
\* of d degrees, evaluated with d in hundredths of a degree
cosMilli(dec) ==
    LET x == Abs(dec) \div (DecUnitsPerDeg \div 100)
    IN  (324000000 - 4 * x * x) \div ((324000000 + x * x) \div 1000)

\* Utils.angularSeparation(ra1, dec1, ra2, dec2), squared, in square
\* sub-units; an offset beyond Far sub-units in either coordinate is
\* reported as the separation (Far, Far)
angularSeparationSq(ra1, dec1, ra2, dec2) ==
    LET dra == (Abs(ra2 - ra1) * cosMilli(dec1)) \div 100
        ddec == Abs(dec2 - dec1) * 10
    IN  IF dra > Far \/ ddec > Far THEN 2 * Far * Far
        ELSE dra * dra + ddec * ddec

\* separation <= arcsec / 3600.0 degrees, i.e. 9 * separation <= 50 * arcsec
\* in sub-units
SeparationWithin(sepSq, arcsec) == 81 * sepSq <= 2500 * arcsec * arcsec

\* AstroObject.isWithinRadius(centerRA, centerDec, radiusArcsec)
isWithinRadius(obj, cRA, cDec, radiusArcsec) ==
    SeparationWithin(
        angularSeparationSq(cRA, cDec, obj.ra, obj.dec),
        radiusArcsec)

\* Catalog.findObjectsInAperture(centerRA, centerDec, apertureArcsec)
findObjectsInAperture(objs, cRA, cDec, apertureArcsec) ==
    SelectSeq(objs,
        LAMBDA obj : isWithinRadius(obj, cRA, cDec, apertureArcsec))

\* CONSTANTS.SLIT_WIDTH_DEG = 0.3/60 and SLIT_HEIGHT_DEG = 1.0/60 degree, in
\* units of 1/60000 degree (a third of a sub-unit)
SLIT_WIDTH_DEG == 300
SLIT_HEIGHT_DEG == 1000

inSlitEitherAxis(obj, cRA, cDec, slitWidthDeg, slitHeightDeg) ==
    LET dRA == 3 * ((Abs(obj.ra - cRA) * cosMilli(cDec)) \div 100)
        dDec == 3 * (Abs(obj.dec - cDec) * 10)
    IN  2 * dRA <= slitWidthDeg \/ 2 * dDec <= slitHeightDeg

\* The filter predicate of findObjectsInSlit:
\* dRA = |(obj.ra - centerRA) * 15 * cosDec|, dDec = |obj.dec - centerDec|,
\* inSlit = dRA <= slitWidthDeg/2 && dDec <= slitHeightDeg/2
inSlit(obj, cRA, cDec, slitWidthDeg, slitHeightDeg) ==
    LET dRA == 3 * ((Abs(obj.ra - cRA) * cosMilli(cDec)) \div 100)
        dDec == 3 * (Abs(obj.dec - cDec) * 10)
    IN  2 * dRA <= slitWidthDeg /\ 2 * dDec <= slitHeightDeg

\* Catalog.findObjectsInSlit(centerRA, centerDec, slitWidthDeg, slitHeightDeg)
findObjectsInSlit(objs, cRA, cDec, slitWidthDeg, slitHeightDeg) ==
    SelectSeq(objs,
        LAMBDA obj : inSlit(obj, cRA, cDec,
                            slitWidthDeg, slitHeightDeg))

\* Objects of a loaded field that lie within a slit length of each other
ClusterField ==
    << [name |-> "G1", ra |-> 13 * RAUnitsPerHour,
        dec |-> 55600, objType |-> 1],
       [name |-> "S1", ra |-> 13 * RAUnitsPerHour + 4,
        dec |-> 55610, objType |-> 0],
       [name |-> "S2", ra |-> 13 * RAUnitsPerHour + 40,
        dec |-> 55600, objType |-> 0] >>

\* The objects of Catalog.loadSampleData: name, ra, dec, objType
SampleData ==
    << [name |-> "Sample Star 1", ra |-> 13 * RAUnitsPerHour,
        dec |-> 55600, objType |-> 0],
       [name |-> "Sample Galaxy 1", ra |-> 13 * RAUnitsPerHour + 600,
        dec |-> 55500, objType |-> 1],
       [name |-> "Sample Star 2", ra |-> 13 * RAUnitsPerHour - 600,
        dec |-> 55700, objType |-> 0] >>

\* FIELDS (1-based): the Coma Berenices cluster, the Ursa Major I cluster and
\* the Stellar Temperature Group, ra in RA units and dec in Dec units
FieldIds == {1, 4, 7}

FIELDS ==
    [f \in FieldIds |->
        CASE f = 1 -> [filename |-> "COMAFLD.json", ra |-> 389617,
                       dec |-> 55367, background |-> FALSE]
          [] f = 4 -> [filename |-> "UMA1FLD.json", ra |-> 354192,
                       dec |-> 111202, background |-> FALSE]
          [] f = 7 -> [filename |-> "STARTEMP.json", ra |-> 177000,
                       dec |-> 14800, background |-> TRUE]]

\* The array of records response.json() delivers for a field's file
FieldFile(f) ==
    CASE f = 1 -> ClusterField
      [] f = 4 -> << [name |-> "U1", ra |-> 354200, dec |-> 111200,
                      objType |-> 1] >>
      [] f = 7 -> << [name |-> "T1", ra |-> 177010, dec |-> 14790,
                      objType |-> 0],
                     [name |-> "T2", ra |-> 176990, dec |-> 14810,
                      objType |-> 0] >>

\* new AstroObject(data), the fields of the model
AstroObject(data) ==
    [name |-> data.name, ra |-> data.ra, dec |-> data.dec,
     objType |-> data.objType]

\* How the fetch of a file ends: the array is delivered; fetch rejects; the
\* response is not ok; response.json() rejects; the JSON is not an array
Responses == {"ok", "fetchError", "notOK", "badJSON", "notArray"}

\* this.backgroundStars = []
NoStars == [ra |-> 0, dec |-> 0, count |-> 0]

\* Catalog.generateBackgroundStars(centerRA, centerDec, fovDegrees,
\* useDenseField): the stars are drawn at random around the centre given;
\* the model keeps the centre and the number of stars
generateBackgroundStars(cRA, cDec, useDenseField) ==
    [ra |-> cRA, dec |-> cDec,
     count |-> IF useDenseField THEN 50000 ELSE 1000]

loadFromFileKeepsObjectsOnError(previous, f, response) ==
    IF response = "ok"
    THEN [i \in DOMAIN FieldFile(f) |-> AstroObject(FieldFile(f)[i])]
    ELSE previous

\* this.catalog.objects once loadFromFile settles:
\* this.objects = data.map(objData => new AstroObject(objData)), or
\* loadSampleData() in the catch block
loadFromFile(previous, f, response) ==
    IF response = "ok"
    THEN [i \in DOMAIN FieldFile(f) |-> AstroObject(FieldFile(f)[i])]
    ELSE SampleData

\* A loadFromFile call suspended at its fetch
PendingLoad(f) == [field |-> f, response |-> "none", promise |-> "pending"]

\* The callback of the 'Select Field' modal, up to its await
ShowFieldSelection(f) ==
    /\ Len(loads) < MaxSelections
    /\ lastOp' = "showFieldSelection"
    /\ currentField' = f
    /\ centerRA' = FIELDS[f].ra
    /\ centerDec' = FIELDS[f].dec
    /\ loads' = Append(loads, PendingLoad(f))
    /\ UNCHANGED <<slewSpeedIndex, slewActive, slewDirection, slewTimer,
                   autoSlewTarget, autoSlewActive, slewTickers,
                   tickersCreated, ticks>>
    /\ UNCHANGED <<currentTelescope, objects, altitude, backgroundStars>>
    /\ UNCHANGED <<photVars, measVars, specVars, alerted, slitQuery,
                   utilCall>>

\* The i-th loadFromFile call resumes with the outcome of its fetch and
\* settles; when it is fulfilled the modal's callback resumes after its
\* await and generates the background stars
LoadFromFileSettles(i, response) ==
    /\ i \in DOMAIN loads
    /\ loads[i].promise = "pending"
    /\ lastOp' = "loadFromFile"
    /\ objects' = loadFromFile(objects, loads[i].field, response)
    /\ IF response = "ok"
       THEN /\ loads' = [loads EXCEPT ![i].response = response,
                                      ![i].promise = "fulfilled"]
            /\ backgroundStars' =
                   generateBackgroundStars(centerRA, centerDec,
                       FIELDS[loads[i].field].background)
       ELSE /\ loads' = [loads EXCEPT ![i].response = response,
                                      ![i].promise = "rejected"]
            /\ UNCHANGED backgroundStars
    /\ UNCHANGED <<currentTelescope, currentField, altitude>>
    /\ UNCHANGED <<telVars, photVars, measVars, specVars, alerted, slitQuery,
                   utilCall>>

----------------------------------------------------------------------------
(* PhotometerController *)

Filters == {"U", "B", "V"}

\* CONSTANTS.APERTURE_SIZES, arcseconds
APERTURE_SIZES == [i \in 0..3 |-> CASE i = 0 -> 5 [] i = 1 -> 10
                                    [] i = 2 -> 20 [] i = 3 -> 40]

\* CONSTANTS.INTEGRATION_TIMES, in milliseconds (integrationTime * 1000)
INTEGRATION_TIMES == [i \in 0..3 |-> CASE i = 0 -> 10 [] i = 1 -> 100
                                       [] i = 2 -> 1000 [] i = 3 -> 10000]

\* const updateInterval = 100, milliseconds
updateInterval == 100

\* No measurement made yet
NoResults == [k \in {} |-> 0]

InitPhotometer ==
    /\ currentFilter = "V"
    /\ apertureIndex = 2
    /\ integrationIndex = 2
    /\ atmosphereEnabled = TRUE
    /\ integrating = FALSE
    /\ integrationTimer = NULL
    /\ integrationProgress = 0
    /\ observationCount = 0
    /\ integTickers = NoTickers
    /\ integrationsStarted = 0
    /\ controlsDisabled = FALSE
    /\ results = NoResults
    /\ resultAirmass = 1000
    /\ outputLines = 0

\* A click on a control reaches its listener only while the control is
\* not disabled.
ControlEnabled == ~controlsDisabled

\* click listener of a .filter-btn
ClickFilter(f) ==
    /\ ControlEnabled
    /\ lastOp' = "clickFilter"
    /\ currentFilter' = f
    /\ UNCHANGED <<apertureIndex, integrationIndex, atmosphereEnabled,
                   integrating, integrationTimer, integrationProgress,
                   observationCount, integTickers, integrationsStarted,
                   controlsDisabled>>
    /\ UNCHANGED <<notPhotVars, measVars>>

\* cycleAperture, the click listener of #aperture-btn
CycleAperture ==
    /\ ControlEnabled
    /\ lastOp' = "cycleAperture"
    /\ apertureIndex' = (apertureIndex + 1) % 4
    /\ UNCHANGED <<currentFilter, integrationIndex, atmosphereEnabled,
                   integrating, integrationTimer, integrationProgress,
                   observationCount, integTickers, integrationsStarted,
                   controlsDisabled>>
    /\ UNCHANGED <<notPhotVars, measVars>>

\* cycleIntegrationTime, the click listener of #integration-btn
CycleIntegrationTime ==
    /\ ControlEnabled
    /\ lastOp' = "cycleIntegrationTime"
    /\ integrationIndex' = (integrationIndex + 1) % 4
    /\ UNCHANGED <<currentFilter, apertureIndex, atmosphereEnabled,
                   integrating, integrationTimer, integrationProgress,
                   observationCount, integTickers, integrationsStarted,
                   controlsDisabled>>
    /\ UNCHANGED <<notPhotVars, measVars>>

\* toggleAtmosphere, the click listener of #atmosphere-btn
ToggleAtmosphere ==
    /\ ControlEnabled
    /\ lastOp' = "toggleAtmosphere"
    /\ atmosphereEnabled' = ~atmosphereEnabled
    /\ UNCHANGED <<currentFilter, apertureIndex, integrationIndex,
                   integrating, integrationTimer, integrationProgress,
                   observationCount, integTickers, integrationsStarted,
                   controlsDisabled>>
    /\ UNCHANGED <<notPhotVars, measVars>>

startIntegrationIgnoresIntegrating == FALSE

\* if (this.integrating) return;
startIntegrationReturnsEarly == integrating

disabledAtStartLeftEnabled == FALSE

\* .forEach(el => el.disabled = true) in startIntegration
disabledAtStart == TRUE

\* startIntegration, a method of the controller and the click listener of
\* #start-integration
StartIntegration ==
    /\ lastOp' = "startIntegration"
    /\ IF startIntegrationReturnsEarly
       THEN UNCHANGED photVars
       ELSE /\ integrationsStarted < MaxIntegrations
            /\ integrating' = TRUE
            /\ integrationProgress' = 0
            /\ controlsDisabled' = disabledAtStart
            /\ integrationsStarted' = integrationsStarted + 1
            /\ integrationTimer' = integrationsStarted + 1
            /\ integTickers' = SetInterval(integTickers,
                   integrationsStarted + 1,
                   [currentStep |-> 0,
                    integrationTime |-> INTEGRATION_TIMES[integrationIndex]])
            /\ UNCHANGED <<currentFilter, apertureIndex, integrationIndex,
                           atmosphereEnabled, observationCount>>
    /\ UNCHANGED <<notPhotVars, measVars>>

\* Utils.calculateAirmass(altitude), in thousandths, altitude in degrees:
\* 1 / sin with sin(a) approximated by 4a(180 - a) / (40500 - a(180 - a))
calculateAirmass(alt) ==
    IF alt <= 0 THEN 0
    ELSE LET p == alt * (180 - alt) IN ((40500 - p) * 1000) \div (4 * p)

\* getCurrentPointing().altaz.altitude
pointingAltitude == IF currentTelescope # NULL THEN altitude ELSE 0

airmassIgnoresAtmosphereFlag == calculateAirmass(pointingAltitude)

\* let airmass = 1.0;
\* if (this.atmosphereEnabled && pointing.telescope) airmass = calculateAirmass(...)
airmassOfPointing ==
    IF atmosphereEnabled /\ currentTelescope # NULL
    THEN calculateAirmass(pointingAltitude)
    ELSE 1000

\* a term that is not part of a count
NoTerm == -1

SKY == "SKY"

skyReportedAlongsideObjects(objs) == atmosphereEnabled

\* if (this.atmosphereEnabled) { ... if (objects.length === 0) results['SKY'] = skyCounts }
skyReported(objs) == atmosphereEnabled /\ Len(objs) = 0

\* The terms that make up results[obj.name]: the airmass of the extinction
\* applied to the object's flux, whether a sky-background draw is added, and
\* the airmass of sigma in the scintillation noise added
objectTerms(airmass, telescope) ==
    [extinction |-> IF atmosphereEnabled THEN airmass ELSE NoTerm,
     sky |-> atmosphereEnabled,
     scintillation |-> IF atmosphereEnabled /\ telescope # NULL
                       THEN airmass ELSE NoTerm]

\* The terms that make up results['SKY']
skyTerms(airmass) ==
    [extinction |-> airmass, sky |-> TRUE, scintillation |-> NoTerm]

\* simulatePhotometry(objects, apertureArcsec, integrationTime, airmass,
\* telescope): the keys of the returned object and the terms of each count
simulatePhotometry(objs, airmass, telescope) ==
    LET names == { objs[i].name : i \in DOMAIN objs }
        keys == names \cup (IF skyReported(objs) THEN {SKY} ELSE {})
    IN  [k \in keys |-> IF k \in names THEN objectTerms(airmass, telescope)
                                       ELSE skyTerms(airmass)]

\* The objects performPhotometry finds in the aperture
objectsInAperture ==
    findObjectsInAperture(objects, centerRA, centerDec,
                          APERTURE_SIZES[apertureIndex])

\* performPhotometry and displayResults
PerformPhotometry ==
    LET airmass == airmassOfPointing
        res == simulatePhotometry(objectsInAperture, airmass, currentTelescope)
    IN  /\ results' = res
        /\ resultAirmass' = airmass
        /\ observationCount' = observationCount + 1
        /\ outputLines' = outputLines + Cardinality(DOMAIN res)

completesOneTickLate(currentStep, integrationTime) ==
    currentStep * updateInterval > integrationTime

\* if (currentStep >= totalSteps), totalSteps = integrationTime*1000/updateInterval
completes(currentStep, integrationTime) ==
    currentStep * updateInterval >= integrationTime

\* (currentStep / totalSteps) * 100
progressOf(currentStep, integrationTime) ==
    (currentStep * updateInterval * 100) \div integrationTime

\* An integration ticker fires: the setInterval callback of startIntegration,
\* with completeIntegration, performPhotometry and displayResults when the
\* last step is reached
IntegrationTick(t) ==
    /\ t \in DOMAIN integTickers
    /\ lastOp' = "integrationTick"
    /\ LET c == integTickers[t]
           step == c.currentStep + 1
           stepped == [integTickers EXCEPT ![t].currentStep = step]
       IN  /\ integrationProgress' = progressOf(step, c.integrationTime)
           /\ IF completes(step, c.integrationTime)
              THEN \* completeIntegration
                   /\ integrating' = FALSE
                   /\ integTickers' = ClearInterval(stepped, integrationTimer)
                   /\ integrationTimer' = NULL
                   /\ controlsDisabled' = FALSE
                   /\ PerformPhotometry
              ELSE /\ integTickers' = stepped
                   /\ UNCHANGED <<integrating, integrationTimer,
                                  controlsDisabled, observationCount>>
                   /\ UNCHANGED measVars
    /\ UNCHANGED <<currentFilter, apertureIndex, integrationIndex,
                   atmosphereEnabled, integrationsStarted>>
    /\ UNCHANGED notPhotVars

\* hide, reached through closePhotometer
Hide ==
    /\ lastOp' = "hide"
    /\ IF integrationTimer # NULL
       THEN /\ integTickers' = ClearInterval(integTickers, integrationTimer)
            /\ integrationTimer' = NULL
       ELSE UNCHANGED <<integTickers, integrationTimer>>
    /\ UNCHANGED <<currentFilter, apertureIndex, integrationIndex,
                   atmosphereEnabled, integrating, integrationProgress,
                   observationCount, integrationsStarted, controlsDisabled>>
    /\ UNCHANGED <<notPhotVars, measVars>>

----------------------------------------------------------------------------
(* SpectrometerController *)

\* this.currentObject = null
NoObject == [name |-> "null", ra |-> 0, dec |-> 0, objType |-> 0]

\* The counts array of generateWavelengthGrid, one entry per wavelength bin
Bins == 1..NumBins

ZeroCounts == [i \in Bins |-> 0]

\* this.rates = []
NoRates == << >>

\* NaN, the sum of a count and a draw from an undefined rate
NaN == -1

\* The rate array generateSpectrum computes for an object: one rate per
\* wavelength bin, each a function of the object alone
ratesOf(obj) == [i \in Bins |-> obj.name]

\* let minDist = Infinity: above every squared separation
Infinity == 2 * Far * Far + 1

\* The loop of updateSlitContents over objectsInSlit:
\* if (dist < minDist) { minDist = dist; nearest = obj; }
RECURSIVE nearestFrom(_, _, _, _, _, _)
nearestFrom(inSlitObjs, i, nearest, minDist, ra, dec) ==
    IF i > Len(inSlitObjs) THEN nearest
    ELSE LET obj == inSlitObjs[i]
             dist == angularSeparationSq(ra, dec, obj.ra, obj.dec)
         IN  IF dist < minDist
             THEN nearestFrom(inSlitObjs, i + 1, obj, dist, ra, dec)
             ELSE nearestFrom(inSlitObjs, i + 1, nearest, minDist, ra, dec)

\* const slitWidthDeg = CONSTANTS.SLIT_WIDTH_DEG * 10;
\* const slitHeightDeg = CONSTANTS.SLIT_HEIGHT_DEG * 5;
detectionSlit ==
    [width |-> SLIT_WIDTH_DEG * 10, height |-> SLIT_HEIGHT_DEG * 5]

\* The value updateSlitContents gives this.currentObject
slitObject ==
    LET objectsInSlit == findObjectsInSlit(objects, centerRA, centerDec,
                             detectionSlit.width, detectionSlit.height)
    IN  IF Len(objectsInSlit) = 0 THEN NoObject
        ELSE nearestFrom(objectsInSlit, 1, objectsInSlit[1], Infinity,
                         centerRA, centerDec)

\* this.spectralLibraryLoaded once SpectrometerController.loadSpectralLibrary
\* has run: Utils.loadSpectralLibrary catches every error of the fetch and
\* returns null, so the try block always completes and the catch block,
\* which would reset the flag, is never entered
loadedFlagAfter(library) == TRUE

\* The controller once init() has run: evaluated tells whether
\* updateSpectrometerView found a field loaded and evaluated the slit
InitSpectrometer(evaluated, library) ==
    /\ currentObject = IF evaluated THEN slitObject ELSE NoObject
    /\ specIntegrating = FALSE
    /\ specTimer = NULL
    /\ elapsed = 0
    /\ counts = ZeroCounts
    /\ rates = NoRates
    /\ plotMode = "scatter"
    /\ spectralLibrary = library
    /\ pendingSpectra = {}
    /\ specTickers = NoTickers
    /\ specStarted = 0
    /\ specTicks = 0
    /\ integrationObject = NoObject
    /\ tickRates = NoRates
    /\ spectralLibraryLoaded = loadedFlagAfter(library)
    /\ specInit = "done"
    /\ alerted = FALSE

\* The controller as its constructor leaves it, init() suspended at
\* await this.loadSpectralLibrary()
ConstructSpectrometer ==
    /\ currentObject = NoObject
    /\ specIntegrating = FALSE
    /\ specTimer = NULL
    /\ elapsed = 0
    /\ counts = << >>
    /\ rates = NoRates
    /\ plotMode = "scatter"
    /\ spectralLibrary = FALSE
    /\ pendingSpectra = {}
    /\ specTickers = NoTickers
    /\ specStarted = 0
    /\ specTicks = 0
    /\ integrationObject = NoObject
    /\ tickRates = NoRates
    /\ spectralLibraryLoaded = FALSE
    /\ specInit = "loading"
    /\ alerted = FALSE

\* How the fetch of data/jacoby_atlas.json ends: the library is delivered;
\* fetch rejects; the response is not ok; response.json() rejects
LibraryResponses == {"ok", "fetchError", "notOK", "badJSON"}

\* Utils.spectralLibrary after Utils.loadSpectralLibrary: assigned only
\* when the fetch delivered the library
libraryAfterLoad(library, response) == library \/ response = "ok"

\* init() resumes when Utils.loadSpectralLibrary has settled: the rest of
\* SpectrometerController.loadSpectralLibrary, then setupEventListeners,
\* generateWavelengthGrid, updateSpectrometerView and clearSpectrum
SpectrometerInitResumes(response) ==
    /\ specInit = "loading"
    /\ lastOp' = "spectrometer.init"
    /\ alerted' = FALSE
    /\ spectralLibrary' = libraryAfterLoad(spectralLibrary, response)
    /\ spectralLibraryLoaded' =
           loadedFlagAfter(libraryAfterLoad(spectralLibrary, response))
    /\ counts' = ZeroCounts
    /\ elapsed' = 0
    /\ currentObject' = IF currentField # NULL THEN slitObject
                        ELSE currentObject
    /\ specInit' = "done"
    /\ UNCHANGED <<specIntegrating, specTimer, rates, plotMode,
                   pendingSpectra, specTickers, specStarted, specTicks,
                   integrationObject, tickRates>>
    /\ UNCHANGED notSpecVars

\* The object startIntegration works with: this.currentObject, re-evaluated
\* by updateSlitContents when it is null
objectAtStart == IF currentObject = NoObject THEN slitObject ELSE currentObject

startRejectedNever == FALSE

\* if (!this.currentObject) { this.updateSlitContents();
\*     if (!this.currentObject) { alert(...); return; } }
startRejected == objectAtStart = NoObject

\* generateSpectrum reaches this.rates = ... before it returns to its caller
\* or in a microtask of the same task: the object is a galaxy, or
\* generateStellarSpectrum finds Utils.spectralLibrary loaded and does not
\* wait for a fetch
spectrumReadyAtStart(obj) == obj.objType = 1 \/ spectralLibrary

\* SpectrometerController.startIntegration, the click listener of
\* #start-spectrum, attached by init()
SpectrometerStartIntegration ==
    /\ specInit = "done"
    /\ lastOp' = "spectrometer.startIntegration"
    /\ IF startRejected
       THEN /\ alerted' = TRUE
            /\ UNCHANGED specVars
       ELSE /\ alerted' = FALSE
            /\ currentObject' = objectAtStart
            /\ IF specIntegrating
               THEN UNCHANGED <<specIntegrating, specTimer, elapsed, counts,
                                rates, plotMode, spectralLibrary,
                                pendingSpectra, specTickers, specStarted,
                                specTicks, integrationObject, tickRates,
                                spectralLibraryLoaded, specInit>>
               ELSE /\ specStarted < MaxSpecStarts
                    /\ specIntegrating' = TRUE
                    /\ elapsed' = 0
                    /\ IF objectAtStart = NoObject
                       THEN UNCHANGED <<rates, pendingSpectra>>
                       ELSE IF spectrumReadyAtStart(objectAtStart)
                       THEN /\ rates' = ratesOf(objectAtStart)
                            /\ UNCHANGED pendingSpectra
                       ELSE /\ pendingSpectra' =
                                   pendingSpectra \cup {objectAtStart}
                            /\ UNCHANGED rates
                    /\ plotMode' = "scatter"
                    /\ counts' = ZeroCounts
                    /\ specStarted' = specStarted + 1
                    /\ specTimer' = specStarted + 1
                    /\ specTickers' =
                           SetInterval(specTickers, specStarted + 1, 250)
                    /\ integrationObject' = objectAtStart
                    /\ UNCHANGED <<spectralLibrary, specTicks, tickRates,
                                   spectralLibraryLoaded, specInit>>
    /\ UNCHANGED notSpecVars

\* A suspended generateSpectrum resumes after Utils.loadSpectralLibrary
\* settled (loaded tells whether the fetch delivered the library) and
\* assigns this.rates for the object it was called for
GenerateSpectrumResumes(obj, loaded) ==
    /\ obj \in pendingSpectra
    /\ lastOp' = "generateSpectrum"
    /\ alerted' = FALSE
    /\ pendingSpectra' = pendingSpectra \ {obj}
    /\ spectralLibrary' = (spectralLibrary \/ loaded)
    /\ rates' = ratesOf(obj)
    /\ UNCHANGED <<currentObject, specIntegrating, specTimer, elapsed, counts,
                   plotMode, specTickers, specStarted, specTicks,
                   integrationObject, tickRates, spectralLibraryLoaded,
                   specInit>>
    /\ UNCHANGED notSpecVars

\* counts[i] += Utils.poissonRandom(this.rates[i]) with the draw d
addDraw(count, rateArray, i, d) ==
    IF i \in DOMAIN rateArray /\ count # NaN THEN count + d ELSE NaN

\* updateIntegration, the callback of the spectrometer ticker; draw[i] is the
\* Poisson draw of bin i
UpdateIntegration(t, draw) ==
    /\ t \in DOMAIN specTickers
    /\ specTicks < MaxSpecTicks
    /\ lastOp' = "updateIntegration"
    /\ alerted' = FALSE
    /\ specTicks' = specTicks + 1
    /\ elapsed' = elapsed + 1
    /\ counts' = [i \in Bins |-> addDraw(counts[i], rates, i, draw[i])]
    /\ tickRates' = rates
    /\ UNCHANGED <<currentObject, specIntegrating, specTimer, rates, plotMode,
                   spectralLibrary, pendingSpectra, specTickers, specStarted,
                   integrationObject, spectralLibraryLoaded, specInit>>
    /\ UNCHANGED notSpecVars

TickersAfterSpectrometerStopKept == specTickers

\* if (this.integrationTimer) clearInterval(this.integrationTimer)
TickersAfterSpectrometerStop ==
    IF specTimer # NULL THEN ClearInterval(specTickers, specTimer)
                        ELSE specTickers

\* SpectrometerController.stopIntegration, the click listener of
\* #stop-spectrum, attached by init()
SpectrometerStopIntegration ==
    /\ specInit = "done"
    /\ lastOp' = "spectrometer.stopIntegration"
    /\ alerted' = FALSE
    /\ IF ~specIntegrating
       THEN UNCHANGED specVars
       ELSE /\ specIntegrating' = FALSE
            /\ specTickers' = TickersAfterSpectrometerStop
            /\ specTimer' = NULL
            /\ plotMode' = "line"
            /\ UNCHANGED <<currentObject, elapsed, counts, rates,
                           spectralLibrary, pendingSpectra, specStarted,
                           specTicks, integrationObject, tickRates,
                           spectralLibraryLoaded, specInit>>
    /\ UNCHANGED notSpecVars

----------------------------------------------------------------------------
(* Utils: spectral synthesis *)

\* while (i < sourceWavelengths.length - 1 && sourceWavelengths[i] < targetWave) i++
\* with the 1-based index j = i + 1
RECURSIVE surroundingIndex(_, _, _)
surroundingIndex(sourceWavelengths, targetWave, j) ==
    IF j < Len(sourceWavelengths) /\ sourceWavelengths[j] < targetWave
    THEN surroundingIndex(sourceWavelengths, targetWave, j + 1)
    ELSE j

\* The flux interpolateSpectrum pushes for one target wavelength
interpolatedFlux(sourceWavelengths, sourceSpectrum, targetWave) ==
    LET j == surroundingIndex(sourceWavelengths, targetWave, 1)
    IN  IF j = 1
        THEN sourceSpectrum[1]
        ELSE IF j >= Len(sourceWavelengths) + 1
        THEN sourceSpectrum[Len(sourceSpectrum)]
        ELSE LET w1 == sourceWavelengths[j - 1]
                 w2 == sourceWavelengths[j]
                 f1 == sourceSpectrum[j - 1]
                 f2 == sourceSpectrum[j]
             IN  f1 + ((targetWave - w1) * (f2 - f1)) \div (w2 - w1)

\* Utils.interpolateSpectrum(sourceWavelengths, sourceSpectrum,
\* targetWavelengths)
interpolateSpectrum(sourceWavelengths, sourceSpectrum, targetWavelengths) ==
    [k \in DOMAIN targetWavelengths |->
        interpolatedFlux(sourceWavelengths, sourceSpectrum,
                         targetWavelengths[k])]

\* Increasing source grids and the target wavelengths around them; the
\* fluxes are multiples of every spacing of the grid, so that the linear
\* interpolation is a whole number
SourceGrids ==
    { g \in UNION { [1..n -> 2..5] : n \in 1..MaxGrid } :
        \A i \in DOMAIN g : i < Len(g) => g[i] < g[i + 1] }

Fluxes == {6, 12, 18}

TargetGrids == UNION { [1..n -> 1..6] : n \in 1..MaxTargets }

\* The calls of interpolateSpectrum about to be made
InterpolateCalls ==
    UNION { { [fn |-> "interpolateSpectrum", sourceWavelengths |-> g,
               sourceSpectrum |-> f, targetWavelengths |-> t,
               returned |-> FALSE, result |-> << >>] :
              f \in [DOMAIN g -> Fluxes], t \in TargetGrids } :
            g \in SourceGrids }

\* The call of Utils.interpolateSpectrum returns
InterpolateSpectrum ==
    /\ utilCall.fn = "interpolateSpectrum"
    /\ ~utilCall.returned
    /\ lastOp' = "interpolateSpectrum"
    /\ utilCall' = [utilCall EXCEPT
                      !.returned = TRUE,
                      !.result = interpolateSpectrum(
                                     utilCall.sourceWavelengths,
                                     utilCall.sourceSpectrum,
                                     utilCall.targetWavelengths)]
    /\ UNCHANGED <<telVars, photVars, measVars, siteVars, specVars, alerted,
                   slitQuery>>

\* A string is modelled as the sequence of its characters.
\* String.prototype.toLowerCase, on the letters of spectral types
lowerChar(c) ==
    CASE c = "G" -> "g" [] c = "K" -> "k" [] c = "M" -> "m"
      [] c = "V" -> "v" [] OTHER -> c

toLowerCase(str) == [i \in DOMAIN str |-> lowerChar(str[i])]

\* String.prototype.charAt(0): the empty string for an empty string
charAt0(str) == IF Len(str) = 0 THEN "" ELSE str[1]

\* Array.prototype.findIndex, 1-based, 0 standing for -1: tests[i] is the
\* value of the callback on the i-th element
RECURSIVE findIndex(_, _)
findIndex(tests, i) ==
    IF i > Len(tests) THEN 0
    ELSE IF tests[i] THEN i
    ELSE findIndex(tests, i + 1)

\* Utils.spectralLibrary = null, and the null findSpectralData returns
NoLibrary == [spec_types |-> << >>, loaded |-> FALSE]
NoData == [index |-> 0, actualType |-> << >>]

\* The object findSpectralData returns for the entry at an index: its
\* spectrum is spectra[index]
dataAt(library, index) ==
    [index |-> index, actualType |-> library.spec_types[index]]

\* Utils.findSpectralData(spectralType)
findSpectralData(library, spectralType) ==
    IF ~library.loaded THEN NoData
    ELSE LET types == library.spec_types
             index == findIndex(
                          [i \in DOMAIN types |->
                              toLowerCase(types[i])
                                = toLowerCase(spectralType)], 1)
             baseType == charAt0(spectralType)
             closestIndex == findIndex(
                                 [i \in DOMAIN types |->
                                     charAt0(types[i]) = baseType], 1)
         IN  IF index = 0
             THEN IF closestIndex # 0 THEN dataAt(library, closestIndex)
                  ELSE NoData
             ELSE dataAt(library, index)

\* Spectral type labels, character by character
G0V == <<"G", "0", " ", "V">>
G5V == <<"G", "5", " ", "V">>
G8V == <<"G", "8", " ", "V">>
K5V == <<"K", "5", " ", "V">>

\* The labels of the library and the types asked for: a label in another
\* case, a subtype and a class the library may lack, the empty specType
LibraryTypes == {G0V, G5V, G8V, K5V}

RequestedTypes ==
    {G5V, toLowerCase(G5V), <<"G", "7", " ", "V">>, K5V,
     <<"M", "0", " ", "V">>, << >>}

Libraries ==
    {NoLibrary} \cup
    { [spec_types |-> t, loaded |-> TRUE] :
        t \in UNION { [1..n -> LibraryTypes] : n \in 0..MaxLibrary } }

\* The calls of findSpectralData about to be made
FindCalls ==
    { [fn |-> "findSpectralData", library |-> library,
       spectralType |-> spectralType, returned |-> FALSE,
       result |-> NoData] :
      library \in Libraries, spectralType \in RequestedTypes }

\* The call of Utils.findSpectralData returns
FindSpectralData ==
    /\ utilCall.fn = "findSpectralData"
    /\ ~utilCall.returned
    /\ lastOp' = "findSpectralData"
    /\ utilCall' = [utilCall EXCEPT
                      !.returned = TRUE,
                      !.result = findSpectralData(utilCall.library,
                                                  utilCall.spectralType)]
    /\ UNCHANGED <<telVars, photVars, measVars, siteVars, specVars, alerted,
                   slitQuery>>

----------------------------------------------------------------------------
(* Specifications *)

\* The telescope's site, field and catalog
InitSite(telescope, field, objs, alt) ==
    /\ currentTelescope = telescope
    /\ currentField = field
    /\ objects = objs
    /\ altitude = alt
    /\ loads = IF field = NULL THEN << >>
               ELSE IF objs = SampleData
               THEN << [field |-> field, response |-> "notOK",
                        promise |-> "rejected"] >>
               ELSE << [field |-> field, response |-> "ok",
                        promise |-> "fulfilled"] >>
    /\ backgroundStars =
           IF field = NULL \/ objs = SampleData THEN NoStars
           ELSE generateBackgroundStars(FIELDS[field].ra, FIELDS[field].dec,
                                        FIELDS[field].background)

\* No function of Utils called yet
NoCall == [fn |-> "none"]

\* No findObjectsInSlit call made yet
NoQuery == [centerRA |-> 0, centerDec |-> 0, width |-> 0, height |-> 0,
            found |-> << >>]

\* The slew state machine, from every start pointing
InitSlew ==
    /\ \E p \in StartPointings : InitTelescope(p)
    /\ InitPhotometer
    /\ InitSite(NULL, NULL, << >>, 0)
    /\ InitSpectrometer(FALSE, FALSE)
    /\ slitQuery = NoQuery
    /\ utilCall = NoCall
    /\ lastOp = "init"

NextSlew ==
    \/ CycleSpeed
    \/ \E d \in Directions : StartSlewing(d)
    \/ StopSlewing
    \/ AbortSlewing
    \/ \E obj \in SlewTargets : SlewToObject(obj)
    \/ \E t \in 1..MaxSlewEvents : SlewTick(t)

SpecSlew == InitSlew /\ [][NextSlew]_vars

\* Pointings and catalog objects of a field that straddles RA 0h next to the
\* north pole: every object is a few steps away from every pointing
AutoSlewStarts ==
    { [ra |-> 0, dec |-> Dec90 - 2],
      [ra |-> H24 - 1, dec |-> Dec90 - 3],
      [ra |-> 2, dec |-> Dec90 - 4] }

AutoSlewTargets ==
    { [name |-> "east", ra |-> 3, dec |-> Dec90],
      [name |-> "west", ra |-> H24 - 3, dec |-> Dec90 - 4] }

\* A live slew ticker fires, any number of times
SlewTickUncounted(t) ==
    /\ t \in DOMAIN slewTickers
    /\ UNCHANGED ticks
    /\ PerformSlewStep

\* Auto-slews that nobody stops or aborts, with speed changes; a live ticker
\* keeps firing
InitAutoSlew ==
    /\ \E p \in AutoSlewStarts : InitTelescope(p)
    /\ InitPhotometer
    /\ InitSite(NULL, NULL, << >>, 0)
    /\ InitSpectrometer(FALSE, FALSE)
    /\ slitQuery = NoQuery
    /\ utilCall = NoCall
    /\ lastOp = "init"

NextAutoSlew ==
    \/ CycleSpeed
    \/ \E obj \in AutoSlewTargets : SlewToObject(obj)
    \/ \E t \in 1..MaxSlewEvents : SlewTickUncounted(t)

SpecAutoSlew ==
    /\ InitAutoSlew
    /\ [][NextAutoSlew]_vars
    /\ WF_vars(\E t \in 1..MaxSlewEvents : SlewTickUncounted(t))

\* RA and Dec of "Sample Star 1" and of "G1"
StarRA == 13 * RAUnitsPerHour
StarDec == 55600

\* What the photometer is opened on: nothing selected yet (the constructor's
\* pointing, no telescope, no field, empty catalog); or a telescope and a
\* field selected, the sample catalog loaded and the telescope pointed on
\* Sample Star 1, 2 Dec units (3.6 arcsec) north of it or 30 Dec units
\* (54 arcsec) north of it, the star below or above the horizon; or a field
\* but no telescope selected
PhotScenes ==
    { [telescope |-> NULL, field |-> NULL, objs |-> << >>, alt |-> 0,
       ra |-> 0, dec |-> 0],
      [telescope |-> NULL, field |-> 1, objs |-> SampleData, alt |-> 0,
       ra |-> StarRA, dec |-> StarDec] }
    \cup { [telescope |-> 1, field |-> 1, objs |-> SampleData, alt |-> a,
            ra |-> StarRA, dec |-> StarDec + d] :
           a \in {-10, 30}, d \in {0, 2, 30} }

\* The photometer, with the telescope at rest
InitPhot ==
    /\ \E sc \in PhotScenes :
          /\ InitTelescope([ra |-> sc.ra, dec |-> sc.dec])
          /\ InitSite(sc.telescope, sc.field, sc.objs, sc.alt)
    /\ InitPhotometer
    /\ InitSpectrometer(FALSE, FALSE)
    /\ slitQuery = NoQuery
    /\ utilCall = NoCall
    /\ lastOp = "init"

NextPhot ==
    \/ \E f \in Filters : ClickFilter(f)
    \/ CycleAperture
    \/ CycleIntegrationTime
    \/ ToggleAtmosphere
    \/ StartIntegration
    \/ \E t \in 1..MaxIntegrations : IntegrationTick(t)
    \/ Hide

SpecPhot == InitPhot /\ [][NextPhot]_vars

\* Pointings around G1 / Sample Star 1: on the object; 2 Dec units south;
\* 5 and 6 RA units east (either side of the slit's half width); 16 and 17
\* Dec units north (either side of the slit's half height); 20 and 35 RA
\* units east; and the constructor's pointing
SlitCentres ==
    { [ra |-> StarRA + x, dec |-> StarDec] : x \in {0, 5, 6, 20, 35} }
    \cup { [ra |-> StarRA, dec |-> StarDec + y] : y \in {-2, 16, 17} }
    \cup { [ra |-> 0, dec |-> 0] }

\* The spectrometer, with the telescope at rest on a loaded field: opened
\* before or after the field was loaded, Utils.spectralLibrary loaded or not
InitSpectro ==
    /\ \E p \in SlitCentres : InitTelescope(p)
    /\ \E objs \in {ClusterField, SampleData} : InitSite(1, 1, objs, 30)
    /\ InitPhotometer
    /\ \E evaluated \in BOOLEAN, library \in BOOLEAN :
          InitSpectrometer(evaluated, library)
    /\ slitQuery = NoQuery
    /\ utilCall = NoCall
    /\ lastOp = "init"

\* The Poisson draws of one tick, one per bin
Draws == [Bins -> 0..MaxDraw]

NextSpectro ==
    \/ SpectrometerStartIntegration
    \/ SpectrometerStopIntegration
    \/ \E t \in 1..MaxSpecStarts, draw \in Draws : UpdateIntegration(t, draw)
    \/ \E obj \in pendingSpectra, loaded \in BOOLEAN :
          GenerateSpectrumResumes(obj, loaded)

SpecSpectro == InitSpectro /\ [][NextSpectro]_vars

\* Slit sizes asked of findObjectsInSlit: the slit, the detection slit of
\* updateSlitContents, and a slit a fifth of the size
SlitWidths == {SLIT_WIDTH_DEG \div 5, SLIT_WIDTH_DEG, SLIT_WIDTH_DEG * 10}
SlitHeights == {SLIT_HEIGHT_DEG \div 5, SLIT_HEIGHT_DEG, SLIT_HEIGHT_DEG * 5}

\* A call of Catalog.findObjectsInSlit
FindObjectsInSlit(c, w, h) ==
    /\ lastOp' = "findObjectsInSlit"
    /\ slitQuery' = [centerRA |-> c.ra, centerDec |-> c.dec,
                     width |-> w, height |-> h,
                     found |-> findObjectsInSlit(objects, c.ra, c.dec, w, h)]
    /\ UNCHANGED <<telVars, photVars, measVars, siteVars, specVars, alerted,
                   utilCall>>

\* The slit query on a loaded catalog
InitSlitQuery ==
    /\ InitTelescope([ra |-> 0, dec |-> 0])
    /\ \E objs \in {ClusterField, SampleData} : InitSite(NULL, 1, objs, 0)
    /\ InitPhotometer
    /\ InitSpectrometer(FALSE, FALSE)
    /\ slitQuery = NoQuery
    /\ utilCall = NoCall
    /\ lastOp = "init"

NextSlitQuery ==
    \E c \in SlitCentres, w \in SlitWidths, h \in SlitHeights :
        FindObjectsInSlit(c, w, h)

SpecSlitQuery == InitSlitQuery /\ [][NextSlitQuery]_vars

\* The spectrometer from its construction on: opened on a loaded field or
\* before any field was selected
InitLibrary ==
    /\ \/ /\ \E p \in SlitCentres : InitTelescope(p)
          /\ \E objs \in {ClusterField, SampleData} :
                InitSite(1, 1, objs, 30)
       \/ /\ InitTelescope([ra |-> 0, dec |-> 0])
          /\ InitSite(NULL, NULL, << >>, 0)
    /\ InitPhotometer
    /\ ConstructSpectrometer
    /\ slitQuery = NoQuery
    /\ utilCall = NoCall
    /\ lastOp = "init"

NextLibrary ==
    \/ \E response \in LibraryResponses : SpectrometerInitResumes(response)
    \/ NextSpectro

SpecLibrary == InitLibrary /\ [][NextLibrary]_vars

\* Calls of the spectral-synthesis functions of Utils
InitUtils ==
    /\ InitTelescope([ra |-> 0, dec |-> 0])
    /\ InitSite(NULL, NULL, << >>, 0)
    /\ InitPhotometer
    /\ InitSpectrometer(FALSE, FALSE)
    /\ slitQuery = NoQuery
    /\ utilCall \in InterpolateCalls \cup FindCalls
    /\ lastOp = "init"

NextUtils ==
    \/ InterpolateSpectrum
    \/ FindSpectralData

SpecUtils == InitUtils /\ [][NextUtils]_vars

\* Field selections and the catalog loads they start, from the constructor's
\* state
InitCatalog == InitSlew

NextCatalog ==
    \/ \E f \in FieldIds : ShowFieldSelection(f)
    \/ \E i \in 1..MaxSelections, response \in Responses :
          LoadFromFileSettles(i, response)

SpecCatalog == InitCatalog /\ [][NextCatalog]_vars

Init == InitSlew

Next ==
    \/ NextSlew
    \/ NextPhot
    \/ NextSpectro
    \/ NextSlitQuery
    \/ NextAutoSlew
    \/ NextLibrary
    \/ NextUtils
    \/ NextCatalog

Spec == Init /\ [][Next]_vars

----------------------------------------------------------------------------
(* Properties of the slew state machine (SpecSlew) *)

\* A step of the behaviour is a slew tick taking the auto-slew branch
AutoSlewTickStep == AutoBranch /\ lastOp' = "performSlewStep"

\* The shorter of the two arcs of the RA circle between two right ascensions
EastArc(from, to) == (to - from) % H24
ShortArc(from, to) == Min(EastArc(from, to), EastArc(to, from))

\* C1: in every state reached from an in-range pointing by slew operations,
\* centerRA is in [0,24) hours and centerDec is in [-90,90] degrees.
PointingInRange ==
    /\ centerRA >= 0 /\ centerRA < H24
    /\ centerDec >= -Dec90 /\ centerDec <= Dec90

\* A manual tick has carried RA east across 24h (from 24h - 1 unit to 1 unit)
\* and a later one has saturated Dec at +90.
PointingWrappedAndClamped ==
    /\ lastOp = "performSlewStep"
    /\ ~autoSlewActive
    /\ centerRA = 1
    /\ centerDec = Dec90
    /\ slewDirection = directionMap("north")

\* C2: once stopSlewing or abortSlewing has returned (slewActive is false) no
\* slew ticker is live any more, so no performSlewStep can fire and move the
\* pointing before a new slew is started.
NoTickerAfterStop == ~slewActive => DOMAIN slewTickers = {}

\* C3: on the auto-slew tick at which the wrapped RA difference and the Dec
\* difference are both within one step, the pointing becomes the target's
\* (ra, dec), the target is cleared, slewActive and autoSlewActive become
\* false and no slew ticker stays live.
ArrivalSnapsAndIdles ==
    [][ LET stepDeg == SLEW_SPEEDS[slewSpeedIndex].step
            w == WrappedDRA(autoSlewTarget.ra - centerRA)
            d == autoSlewTarget.dec - centerDec
        IN  (AutoSlewTickStep /\ Arrived(w, d, stepRAOf(stepDeg), stepDeg))
            => /\ centerRA' = autoSlewTarget.ra
               /\ centerDec' = autoSlewTarget.dec
               /\ autoSlewTarget' = NoTarget
               /\ ~slewActive'
               /\ ~autoSlewActive'
               /\ slewTimer' = NULL
               /\ DOMAIN slewTickers' = {} ]_vars

\* C4: an auto-slew tick moves RA along the shorter arc of the RA circle
\* towards the target: by one step east when the eastward arc is the shorter
\* one, by one step west when the westward arc is, and the shorter arc
\* shrinks by exactly that step (it becomes 0 when it was within one step).
AutoSlewTakesShortArc ==
    [][ LET stepRA == stepRAOf(SLEW_SPEEDS[slewSpeedIndex].step)
            east == EastArc(centerRA, autoSlewTarget.ra)
            west == EastArc(autoSlewTarget.ra, centerRA)
            short == ShortArc(centerRA, autoSlewTarget.ra)
        IN  AutoSlewTickStep
            => IF short > stepRA
               THEN /\ east < west => centerRA' = (centerRA + stepRA) % H24
                    /\ west < east => centerRA' = (centerRA - stepRA) % H24
                    /\ ShortArc(centerRA', autoSlewTarget.ra) = short - stepRA
               ELSE centerRA' = autoSlewTarget.ra ]_vars

\* The auto-slew from RA 0h to the object at RA 23h has stepped west through
\* 24h: the pointing is between 23h and 24h and the slew is still running.
ShortWayThrough24h ==
    /\ lastOp = "performSlewStep"
    /\ autoSlewActive /\ slewActive
    /\ autoSlewTarget.name = "far"
    /\ centerRA > 23 * RAUnitsPerHour
    /\ centerDec = 0

\* C5: on an auto-slew tick neither the absolute wrapped RA difference nor
\* the absolute Dec difference to the target increases, whatever speed is
\* selected at that tick.
AutoSlewNeverOvershoots ==
    [][ AutoSlewTickStep
        => /\ Abs(WrappedDRA(autoSlewTarget.ra - centerRA'))
                <= Abs(WrappedDRA(autoSlewTarget.ra - centerRA))
           /\ Abs(autoSlewTarget.dec - centerDec')
                <= Abs(autoSlewTarget.dec - centerDec) ]_vars

\* An auto-slew tick has fired after the speed was changed during the slew
\* (the running ticker was created at another speed's interval) and the slew
\* has not arrived yet.
AutoTickAfterSpeedChange ==
    /\ lastOp = "performSlewStep"
    /\ autoSlewActive /\ slewActive
    /\ slewTimer # NULL
    /\ slewTickers[slewTimer] # SLEW_SPEEDS[slewSpeedIndex].interval
    /\ ticks = 2

\* C6: startSlewing called while a slew is active changes nothing: direction,
\* auto-slew flag and target, pointing, speed and tickers stay as they were.
StartSlewingWhileActiveIsNoOp ==
    [][ (lastOp' = "startSlewing" /\ slewActive) => UNCHANGED telVars ]_vars

\* startSlewing has been called during a running auto-slew and left it running
StartSlewingCalledDuringAutoSlew ==
    /\ lastOp = "startSlewing"
    /\ slewActive /\ autoSlewActive
    /\ autoSlewTarget # NoTarget
    /\ slewTimer # NULL

\* C7: after a slew tick, the running slew ticker fires at the interval of
\* the currently selected entry of SLEW_SPEEDS, also when cycleSpeed changed
\* the selection since the slew started.
TickerFollowsSelectedSpeed ==
    (lastOp = "performSlewStep" /\ slewTimer # NULL)
        => slewTickers[slewTimer] = SLEW_SPEEDS[slewSpeedIndex].interval

\* C26: at any time at most one slew ticker is live and it is the one
\* slewTimer refers to, whatever sequence of startSlewing, slewToObject,
\* stopSlewing and abortSlewing calls was made.
OneSlewTickerReferenced ==
    /\ Cardinality(DOMAIN slewTickers) <= 1
    /\ \A t \in DOMAIN slewTickers : t = slewTimer

\* C27: in every reachable state slewActive holds exactly when slewTimer is
\* not null, autoSlewActive implies slewActive and a target that is not
\* null, and the target is null whenever no slew is active.
SlewFlagsConsistent ==
    /\ slewActive <=> slewTimer # NULL
    /\ autoSlewActive => (slewActive /\ autoSlewTarget # NoTarget)
    /\ ~slewActive => autoSlewTarget = NoTarget

----------------------------------------------------------------------------
(* Properties of the photometer integration (SpecPhot) *)

\* C8: performPhotometry runs exactly once per completed integration: every
\* increment of observationCount is by one and happens on the tick that ends
\* an integration, every integration that ends increments it, the count is
\* the number of integrations started less the one still in progress, and no
\* integration ticker is live once integrating is false.
OneMeasurementPerIntegration ==
    /\ [][ observationCount' # observationCount
           => /\ observationCount' = observationCount + 1
              /\ lastOp' = "integrationTick"
              /\ integrating /\ ~integrating' ]_vars
    /\ [][ (integrating /\ ~integrating')
           => observationCount' = observationCount + 1 ]_vars
    /\ [](observationCount
            = integrationsStarted - (IF integrating THEN 1 ELSE 0))
    /\ [](~integrating => DOMAIN integTickers = {})

\* Two integrations have run to completion, the second one over the 10 s
\* integration time, and two measurements were taken.
TwoIntegrationsTwoMeasurements ==
    /\ lastOp = "integrationTick"
    /\ ~integrating
    /\ integrationIndex = 3
    /\ integrationProgress = 100
    /\ integrationsStarted = 2
    /\ observationCount = 2

\* C9: startIntegration called while integrating changes nothing (progress,
\* step count, ticker and settings stay as they were) and at most one
\* integration ticker is ever live.
StartWhileIntegratingIsNoOp ==
    /\ [][ (lastOp' = "startIntegration" /\ integrating)
           => UNCHANGED photVars ]_vars
    /\ [](Cardinality(DOMAIN integTickers) <= 1)

\* startIntegration has been called in the middle of a running integration,
\* whose progress and ticker it left alone.
StartCalledMidIntegration ==
    /\ lastOp = "startIntegration"
    /\ integrating
    /\ integrationProgress > 0
    /\ integrationTimer # NULL
    /\ integTickers[integrationTimer].currentStep > 0

\* C10: the controls are disabled exactly while integrating is true, and no
\* step taken while integrating changes the filter, the aperture index, the
\* integration-time index or the atmosphere flag.
ControlsDisabledWhileIntegrating ==
    /\ [](controlsDisabled <=> integrating)
    /\ [][ integrating
           => UNCHANGED <<currentFilter, apertureIndex, integrationIndex,
                          atmosphereEnabled>> ]_vars

\* A tick of a running integration, started after the settings were changed,
\* finds the controls still disabled.
TickWithControlsDisabled ==
    /\ lastOp = "integrationTick"
    /\ integrating /\ controlsDisabled
    /\ integrationProgress > 0
    /\ apertureIndex # 2 /\ currentFilter # "V" /\ ~atmosphereEnabled

\* C29: integrating is true exactly while the integration ticker that
\* integrationTimer refers to is live, so that every integration started is
\* ended by its ticker, also after hide (closePhotometer) in the middle of
\* it, and a later startIntegration is accepted.
IntegratingExactlyWhileTickerLive ==
    integrating
        <=> (integrationTimer # NULL
             /\ integrationTimer \in DOMAIN integTickers)

\* C30: no step takes integrationProgress out of [0,100]; a tick brings it
\* to 100 exactly when it completes the integration, and that is the tick
\* number integration time x 1000 / 100, for every entry of
\* INTEGRATION_TIMES.
ProgressWithinPercentRange ==
    [][ /\ integrationProgress' >= 0
        /\ integrationProgress' <= 100
        /\ lastOp' = "integrationTick"
           => LET c == integTickers[integrationTimer]
                  step == c.currentStep + 1
              IN  /\ integrationProgress' = 100 <=> ~integrating'
                  /\ ~integrating'
                       <=> step * updateInterval = c.integrationTime ]_vars

----------------------------------------------------------------------------
(* Properties of the photometer's measurement (SpecPhot) *)

\* The state right after the tick that completed an integration and ran
\* performPhotometry; the settings and the pointing are those of the
\* measurement
MeasurementTaken == lastOp = "integrationTick" /\ ~integrating

\* The names under which the last measurement reported object counts
ObjectsReported == DOMAIN results \ {SKY}

\* C11: a measurement whose aperture holds no catalog object reports exactly
\* one entry, SKY, whatever the filter and whether the atmosphere is enabled
\* or not; a measurement whose aperture holds objects reports no SKY entry.
SkyReadingIffApertureEmpty ==
    MeasurementTaken
        => IF Len(objectsInAperture) = 0
           THEN DOMAIN results = {SKY}
           ELSE SKY \notin DOMAIN results

\* C12: a measurement with the atmosphere disabled uses airmass 1.0 whatever
\* the altitude of the pointing, and every object count it reports has no
\* extinction term, no sky-background term and no scintillation term.
NoAtmosphereNoAirmassTerms ==
    (MeasurementTaken /\ ~atmosphereEnabled)
        => /\ resultAirmass = 1000
           /\ \A k \in ObjectsReported :
                 /\ results[k].extinction = NoTerm
                 /\ ~results[k].sky
                 /\ results[k].scintillation = NoTerm

\* A measurement of Sample Star 1 below the horizon, a telescope selected,
\* with the atmosphere disabled
StarMeasuredBelowHorizonWithoutAtmosphere ==
    /\ MeasurementTaken
    /\ ~atmosphereEnabled
    /\ currentTelescope # NULL
    /\ altitude < 0
    /\ ObjectsReported = {"Sample Star 1"}

\* C13: an integration that completes while no field is loaded takes no
\* measurement: observationCount, the results and the output stay as they
\* were, and the caller is told.
PhotometryWithoutFieldRejected ==
    [][ (currentField = NULL /\ lastOp' = "integrationTick"
            /\ integrating /\ ~integrating')
        => /\ observationCount' = observationCount
           /\ outputLines' = outputLines
           /\ results' = results
           /\ alerted' ]_vars

\* C14: calculateAirmass is 0 for every altitude at or below the horizon, and
\* a measurement with the atmosphere enabled at such a pointing uses the
\* airmass 0 neither in the extinction nor in the scintillation term of an
\* object's count.
HorizonAirmassNotUsed ==
    /\ \A a \in -90..0 : calculateAirmass(a) = 0
    /\ (MeasurementTaken /\ atmosphereEnabled /\ pointingAltitude <= 0)
           => \A k \in ObjectsReported :
                 /\ results[k].extinction # 0
                 /\ results[k].scintillation # 0

\* The separation of obj from the pointing is at most the radius of the
\* selected aperture: apertureArcsec / 3600 / 2 degrees
WithinApertureRadius(obj) ==
    SeparationWithin(
        4 * angularSeparationSq(centerRA, centerDec, obj.ra, obj.dec),
        APERTURE_SIZES[apertureIndex])

\* C15: the objects a measurement finds in the aperture are exactly the
\* catalog objects whose flat-sky separation from the pointing is at most
\* the aperture radius, half the aperture diameter.
ApertureQueryUsesRadius ==
    MeasurementTaken
        => ObjectsReported
             = { objects[i].name :
                   i \in { j \in DOMAIN objects :
                             WithinApertureRadius(objects[j]) } }

----------------------------------------------------------------------------
(* Properties of the slit query (SpecSlitQuery) *)

\* The elements of a sequence
Range(seq) == { seq[i] : i \in DOMAIN seq }

\* The index of an object in the catalog
IndexIn(objs, obj) == CHOOSE i \in DOMAIN objs : objs[i] = obj

\* |dRA| x 15 x cos(centerDec) <= width / 2 and |dDec| <= height / 2, with
\* the offsets in sub-units (3 to 1/60000 degree) and the sizes in 1/60000
\* degree
InsideRectangle(obj, q) ==
    /\ 6 * ((Abs(obj.ra - q.centerRA) * cosMilli(q.centerDec)) \div 100)
          <= q.width
    /\ 60 * Abs(obj.dec - q.centerDec) <= q.height

\* C16: findObjectsInSlit returns the catalog objects that pass the
\* rectangular test, each once and in catalog order, and no other object; an
\* object on the centre is returned, an object further than half the width
\* in RA or further than half the height in Dec is not.
SlitQueryIsRectangular ==
    lastOp = "findObjectsInSlit"
        => LET q == slitQuery IN
           /\ Range(q.found) \subseteq Range(objects)
           /\ \A obj \in Range(objects) :
                 obj \in Range(q.found) <=> InsideRectangle(obj, q)
           /\ \A i, j \in DOMAIN q.found :
                 i < j => IndexIn(objects, q.found[i])
                            < IndexIn(objects, q.found[j])
           /\ \A obj \in Range(objects) :
                 (obj.ra = q.centerRA /\ obj.dec = q.centerDec)
                     => obj \in Range(q.found)

\* A query with the slit centred 2 Dec units south of G1 has returned G1 and
\* S1, in catalog order, and left out S2, which lies 40 RA units east
TwoObjectsFoundInSlit ==
    /\ lastOp = "findObjectsInSlit"
    /\ slitQuery.width = SLIT_WIDTH_DEG
    /\ slitQuery.height = SLIT_HEIGHT_DEG
    /\ Len(slitQuery.found) = 2
    /\ slitQuery.found[1].name = "G1"
    /\ slitQuery.found[2].name = "S1"

----------------------------------------------------------------------------
(* Properties of the spectrometer (SpecSpectro) *)

\* The catalog objects inside the slit of SLIT_WIDTH_DEG x SLIT_HEIGHT_DEG
\* centred on the pointing
InsideSlit ==
    { obj \in Range(objects) :
        InsideRectangle(obj, [centerRA |-> centerRA, centerDec |-> centerDec,
                              width |-> SLIT_WIDTH_DEG,
                              height |-> SLIT_HEIGHT_DEG]) }

\* The objects of InsideSlit nearest to the pointing
NearestInsideSlit ==
    { obj \in InsideSlit :
        \A other \in InsideSlit :
            angularSeparationSq(centerRA, centerDec, obj.ra, obj.dec)
              <= angularSeparationSq(centerRA, centerDec,
                                     other.ra, other.dec) }

\* A step in which startIntegration finds no current object and evaluates
\* the slit with updateSlitContents
SlitEvaluatedStep ==
    lastOp' = "spectrometer.startIntegration" /\ currentObject = NoObject

\* C17: when the spectrometer evaluates the slit, its current object becomes
\* the catalog object nearest to the pointing among those inside the slit of
\* SLIT_WIDTH_DEG x SLIT_HEIGHT_DEG, and null when no object is inside it.
SlitObjectIsNearestInSlit ==
    [][ SlitEvaluatedStep
        => IF InsideSlit = {} THEN currentObject' = NoObject
           ELSE currentObject' \in NearestInsideSlit ]_vars

TicksUseRatesOfIntegrationObject ==
    lastOp = "updateIntegration" => tickRates = ratesOf(integrationObject)

\* C20: stopIntegration while integrating leaves no live ticker, integrating
\* false, plot mode 'line' and the counts and the elapsed time as they were;
\* stopIntegration while not integrating changes nothing; while the
\* spectrometer is not integrating no ticker is live, and counts, elapsed
\* time and plot mode do not change before the next start.
StopHaltsSpectrometerTicker ==
    /\ [][ (lastOp' = "spectrometer.stopIntegration" /\ specIntegrating)
           => /\ ~specIntegrating'
              /\ specTimer' = NULL
              /\ DOMAIN specTickers' = {}
              /\ plotMode' = "line"
              /\ UNCHANGED <<counts, elapsed>> ]_vars
    /\ [][ (lastOp' = "spectrometer.stopIntegration" /\ ~specIntegrating)
           => UNCHANGED specVars ]_vars
    /\ [](~specIntegrating => DOMAIN specTickers = {})
    /\ [][ (~specIntegrating /\ ~specIntegrating')
           => UNCHANGED <<counts, elapsed, plotMode>> ]_vars

\* A suspended generateSpectrum has resumed after the integration was
\* stopped with two ticks accumulated, and the stopped spectrum is intact
ResumedAfterStop ==
    /\ lastOp = "generateSpectrum"
    /\ ~specIntegrating
    /\ plotMode = "line"
    /\ elapsed = 2
    /\ specTickers = NoTickers

----------------------------------------------------------------------------
(* Properties of the catalog loads (SpecCatalog) *)

\* No loadFromFile call is suspended
NoLoadInFlight == \A i \in DOMAIN loads : loads[i].promise # "pending"

\* C21: whenever no catalog load is in flight after a field was selected,
\* the catalog's objects are the catalog of the field selected last (the
\* fallback sample if that field's load failed) and the background stars
\* are those generated for that field's centre and density flag.
CatalogConsistentWithLastField ==
    (NoLoadInFlight /\ loads # << >>)
        => LET f == currentField
               last == loads[Len(loads)]
           IN  /\ last.field = f
               /\ objects = IF last.promise = "rejected" THEN SampleData
                            ELSE FieldFile(f)
               /\ backgroundStars =
                      generateBackgroundStars(FIELDS[f].ra, FIELDS[f].dec,
                                              FIELDS[f].background)

\* C22: a loadFromFile call that fails (fetch error, response not ok,
\* unparsable JSON or JSON that is not an array) leaves the catalog holding
\* exactly the three objects of the fallback sample and rejects; a call
\* that succeeds leaves the file's records, in file order, and fulfils.
LoadFailureFallsBackAndThrows ==
    [][ \A i \in DOMAIN loads :
          (loads[i].promise = "pending" /\ loads'[i].promise # "pending")
          => IF loads'[i].response = "ok"
             THEN /\ loads'[i].promise = "fulfilled"
                  /\ Len(objects') = Len(FieldFile(loads[i].field))
                  /\ \A k \in DOMAIN objects' :
                        objects'[k] = FieldFile(loads[i].field)[k]
             ELSE /\ loads'[i].promise = "rejected"
                  /\ Len(objects') = 3
                  /\ objects'[1].name = "Sample Star 1"
                  /\ objects'[2].name = "Sample Galaxy 1"
                  /\ objects'[3].name = "Sample Star 2" ]_vars

\* The Coma field was loaded, then the load of the Stellar Temperature
\* Group failed on JSON that is not an array: the catalog holds the sample
\* and nothing of the Coma field
FailedLoadReplacedLoadedField ==
    /\ lastOp = "loadFromFile"
    /\ Len(loads) = 2
    /\ loads[1] = [field |-> 1, response |-> "ok", promise |-> "fulfilled"]
    /\ loads[2] = [field |-> 7, response |-> "notArray",
                   promise |-> "rejected"]
    /\ objects = SampleData

----------------------------------------------------------------------------
(* Properties of the spectral library (SpecLibrary) *)

\* C23: the spectrometer's spectralLibraryLoaded flag is true only when a
\* library is in memory (Utils.spectralLibrary is not null): a load that
\* failed is reported to the controller and leaves the flag false.
LibraryFlagOnlyWhenLoaded == spectralLibraryLoaded => spectralLibrary

----------------------------------------------------------------------------
(* Properties of the spectral-synthesis functions (SpecUtils) *)

\* C24: interpolateSpectrum over an increasing source grid returns, for
\* every target wavelength: the flux of the grid point the target equals;
\* the linear interpolation of the two bracketing points for a target
\* between two grid points; the first point's flux for a target below the
\* grid and the last point's flux for a target above it.
InterpolationFlatBeyondGrid ==
    (utilCall.fn = "interpolateSpectrum" /\ utilCall.returned)
        => LET w == utilCall.sourceWavelengths
               f == utilCall.sourceSpectrum
               t == utilCall.targetWavelengths
               r == utilCall.result
               n == Len(w)
           IN  /\ Len(r) = Len(t)
               /\ \A k \in DOMAIN t :
                     /\ \A m \in DOMAIN w : t[k] = w[m] => r[k] = f[m]
                     /\ \A m \in 1..(n - 1) :
                           (w[m] < t[k] /\ t[k] < w[m + 1])
                           => r[k] * (w[m + 1] - w[m])
                                = f[m] * (w[m + 1] - w[m])
                                  + (t[k] - w[m]) * (f[m + 1] - f[m])
                     /\ t[k] < w[1] => r[k] = f[1]
                     /\ t[k] > w[n] => r[k] = f[n]

\* The subtype digit of a spectral type, its second character
Subtype(type) ==
    CASE type[2] = "0" -> 0 [] type[2] = "5" -> 5
      [] type[2] = "7" -> 7 [] type[2] = "8" -> 8

\* The entries of the library whose label is the requested type, ignoring
\* case, and the entries that share its leading class letter
ExactMatches(library, type) ==
    { i \in DOMAIN library.spec_types :
        toLowerCase(library.spec_types[i]) = toLowerCase(type) }

SameClass(library, type) ==
    { i \in DOMAIN library.spec_types :
        Len(type) > 0 /\ library.spec_types[i][1] = type[1] }

\* C25: findSpectralData returns null when the library is absent; otherwise
\* the entry whose label equals the requested type ignoring case; if there is
\* none, the entry closest in subtype among those sharing the requested
\* type's leading class letter; and null only if no entry shares that letter.
FindsExactOrClosestOfClass ==
    (utilCall.fn = "findSpectralData" /\ utilCall.returned)
        => LET library == utilCall.library
               type == utilCall.spectralType
               res == utilCall.result
               exact == ExactMatches(library, type)
               class == SameClass(library, type)
           IN  IF ~library.loaded THEN res = NoData
               ELSE IF exact # {}
               THEN /\ res.index \in exact
                    /\ res.actualType = library.spec_types[res.index]
               ELSE IF class # {}
               THEN /\ res.index \in class
                    /\ res.actualType = library.spec_types[res.index]
                    /\ \A j \in class :
                          Abs(Subtype(res.actualType) - Subtype(type))
                            <= Abs(Subtype(library.spec_types[j])
                                     - Subtype(type))
               ELSE res = NoData

====
